---- MODULE Spec2Model ----
(***************************************************************************)
(* A model of the sql-autograder grading core: the batch loop of           *)
(* grade_submissions (src/main.py), the retry loops of the two backends    *)
(* (src/sqlAutograder/grader.py, src/sqlAutograder/ollama_grader.py) and   *)
(* the result aggregator (src/sqlAutograder/results.py); the start of a    *)
(* run with the submission loader (src/sqlAutograder/data_loader.py); the  *)
(* response parsers of the two backends on token sequences; and the        *)
(* validity filter of the statistics (src/sqlAutograder/statistics.py).    *)
(*                                                                         *)
(* Scores are floats in the code.  The model keeps them as integers in     *)
(* hundredths (7.25 is 725) and draws them from the 0.25 grid, on which    *)
(* binary floating point is exact for sums and differences, so Python's    *)
(* round(x, 1) is round-half-even on the exact value (Round1).             *)
(***************************************************************************)
EXTENDS Integers, Sequences, FiniteSets, TLC

\* ------------------------------------------------------------------ bounds

\* Longest batch the model runs.
MaxSubs == 2

\* Largest max_retries the retry-loop specification draws.
MaxRetries == 3

\* Most data rows of an input file in the whole-run specification.
MaxRows == 1

\* Most tokens of a commentary before or after the payload of a response.
MaxCommentary == 2

\* Most rows of a result file given to the statistics.
MaxStoredRows == 3

\* ------------------------------------------------------- program constants

\* GradingConfig.questions has five entries, '4.1' .. '4.5'.
NumQuestions == 5

\* GeminiConfig.max_retries / OllamaConfig.max_retries default.
DefaultMaxRetries == 3

Questions == 1..NumQuestions

\* The questions whose payload entry or human score the bounded inputs of a
\* batch vary (the others take the base value).
BatchSpecialQuestions == {1}

\* ------------------------------------------------------------- JSON values

\* A per-question score as the model output gives it: absent, a number (in
\* hundredths) or a value that is no number (a string, null, a list).
ScoreMissing == [t |-> "missing", n |-> 0]

ScoreNum(n) == [t |-> "num", n |-> n]

ScoreNaN == [t |-> "nan", n |-> 0]

\* A per-question entry of the payload: the key is absent ("missing"), its
\* value is a JSON object ("obj") or any other JSON value ("nonobj").
MissingEntry ==
    [t |-> "missing", score |-> ScoreMissing, has_feedback |-> FALSE,
     feedback |-> "", has_needs_review |-> FALSE, needs_review |-> FALSE]

NonObjEntry ==
    [t |-> "nonobj", score |-> ScoreMissing, has_feedback |-> FALSE,
     feedback |-> "", has_needs_review |-> FALSE, needs_review |-> FALSE]

ObjEntry(score, has_fb, has_nr, nr) ==
    [t |-> "obj", score |-> score, has_feedback |-> has_fb,
     feedback |-> IF has_fb THEN "model feedback" ELSE "",
     has_needs_review |-> has_nr, needs_review |-> has_nr /\ nr]

GoodEntry(n) == ObjEntry(ScoreNum(n), TRUE, TRUE, FALSE)

Uniform(e) == [q \in Questions |-> e]

OneOff(base, q0, e) == [q \in Questions |-> IF q = q0 THEN e ELSE base]

\* A JSON value as json.loads returns it.  t is its Python type; nz says a
\* non-object is truthy (a non-zero number, a non-empty string or list, True);
\* other says an object holds keys besides the question keys; ent are the
\* object's per-question entries.
JValue(t, nz) == [t |-> t, nz |-> nz, other |-> FALSE, ent |-> Uniform(MissingEntry)]

JObject(ent, other) == [t |-> "obj", nz |-> FALSE, other |-> other, ent |-> ent]

\* Python's None, which is also what the JSON text null parses to.
None == JValue("null", FALSE)

\* bool(llm_result) as `if llm_result:` evaluates it.
Truthy(j) ==
    IF j.t = "obj"
    THEN j.other \/ {q \in Questions : j.ent[q].t # "missing"} # {}
    ELSE j.nz

\* ------------------------------------------------------------- submissions

\* A StudentSubmission as get_submissions returns it: identity as text, one
\* answer text and one human score (hundredths) per question.
Submission(id, name, query, scores) ==
    [student_id |-> id, student_name |-> name,
     queries |-> [q \in Questions |-> query], grader_scores |-> scores]

\* Human scores of the batch specification: full marks, or 0.75 on one
\* question and nothing on the others.
BatchSubmissions ==
    { Submission("s1", "Ann", "SELECT 1", Uniform(1000)) }
    \cup { Submission("s2", "Bob", "[NO ANSWER PROVIDED]", OneOff(0, q, 75)) :
             q \in BatchSpecialQuestions }

RECURSIVE SeqsUpTo(_, _)
\* The sequences over S of length at most n.
SeqsUpTo(S, n) ==
    IF n = 0 THEN {<< >>}
    ELSE LET shorter == SeqsUpTo(S, n - 1)
         IN shorter \cup {Append(s, x) : s \in {t \in shorter : Len(t) = n - 1}, x \in S}

\* ------------------------------------------------------------- arithmetic

\* Python's round(x, 1) on an exactly represented x (hundredths in,
\* hundredths out): round half to even.
Round1(x) ==
    LET q == x \div 10
        r == x % 10
    IN IF r < 5 THEN 10 * q
       ELSE IF r > 5 THEN 10 * (q + 1)
       ELSE IF q % 2 = 0 THEN 10 * q ELSE 10 * (q + 1)

RECURSIVE SumTo(_, _)
\* f[1] + ... + f[n], accumulated in question order as the loops do.
SumTo(f, n) == IF n = 0 THEN 0 ELSE SumTo(f, n - 1) + f[n]

\* ------------------------------------------------------ result aggregator

\* llm_score = q_result.get('score', 0.0) for an entry that is absent or an
\* object ({} for an absent key).
LlmScore(e) == IF e.score.t = "num" THEN e.score.n ELSE 0

\* The exception create_result_from_grading raises on llm_result, or "none":
\* llm_result.get and q_result.get need a dict (AttributeError), and
\* llm_score - grader_score needs a number (TypeError).  The first failing
\* question in question order decides.
RECURSIVE AggregateErrorFrom(_, _)
AggregateErrorFrom(llm_result, q) ==
    IF q > NumQuestions THEN "none"
    ELSE LET e == llm_result.ent[q]
         IN IF e.t = "nonobj" THEN "AttributeError"
            ELSE IF e.t = "obj" /\ e.score.t = "nan" THEN "TypeError"
            ELSE AggregateErrorFrom(llm_result, q + 1)

AggregateError(llm_result) ==
    IF llm_result.t # "obj" THEN "AttributeError"
    ELSE AggregateErrorFrom(llm_result, 1)

\* Mutant of TotalScoreDifference: the model total is rounded before the
\* human total is subtracted.
TotalScoreDifferenceOfRounded(total_llm_score, total_grader_score) ==
    Round1(Round1(total_llm_score) - total_grader_score)

\* total_score_difference of a success record: the difference of the two
\* accumulated (unrounded) totals, rounded.
TotalScoreDifference(total_llm_score, total_grader_score) ==
    Round1(total_llm_score - total_grader_score)

\* Mutant of TotalGraderScore: the human total is rounded like the model
\* total.
TotalGraderScoreRounded(grader_scores) == Round1(SumTo(grader_scores, NumQuestions))

\* total_grader_score: the human scores accumulated in question order
\* (`total_grader_score += grader_score`, `sum(grader_scores.values())`).
TotalGraderScore(grader_scores) == SumTo(grader_scores, NumQuestions)

\* ResultsProcessor.create_result_from_grading, where it does not raise.
create_result_from_grading(sub, llm_result) ==
    LET llm == [q \in Questions |-> LlmScore(llm_result.ent[q])]
        total_llm_score == SumTo(llm, NumQuestions)
        total_grader_score == TotalGraderScore(sub.grader_scores)
    IN [student_id |-> sub.student_id,
        student_name |-> sub.student_name,
        q |-> [q \in Questions |->
                 [query |-> sub.queries[q],
                  grader_score |-> sub.grader_scores[q],
                  llm_score |-> llm[q],
                  score_difference |-> Round1(llm[q] - sub.grader_scores[q]),
                  feedback |-> llm_result.ent[q].feedback,
                  needs_review |-> llm_result.ent[q].needs_review]],
        total_llm_score |-> Round1(total_llm_score),
        total_grader_score |-> total_grader_score,
        total_score_difference |->
            TotalScoreDifference(total_llm_score, total_grader_score)]

\* Mutant of FailedQuestion: the difference is computed from the sentinel
\* instead of being the sentinel.
FailedQuestionComputedDifference(sub, q) ==
    [query |-> sub.queries[q],
     grader_score |-> sub.grader_scores[q],
     llm_score |-> -100,
     score_difference |-> Round1(-100 - sub.grader_scores[q]),
     feedback |-> "Grading failed - requires manual review",
     needs_review |-> TRUE]

\* The fixed fields of a failure record, per question.
FailedQuestion(sub, q) ==
    [query |-> sub.queries[q],
     grader_score |-> sub.grader_scores[q],
     llm_score |-> -100,
     score_difference |-> -100,
     feedback |-> "Grading failed - requires manual review",
     needs_review |-> TRUE]

\* ResultsProcessor.create_failed_result.
create_failed_result(sub) ==
    [student_id |-> sub.student_id,
     student_name |-> sub.student_name,
     q |-> [q \in Questions |-> FailedQuestion(sub, q)],
     total_llm_score |-> -100,
     total_grader_score |-> TotalGraderScore(sub.grader_scores),
     total_score_difference |-> -100]

\* A column of the result file: a field of a question (q in Questions), or a
\* field of the record itself (q = 0).
Column(q, field) == [q |-> q, field |-> field]

\* Mutant of QuestionFields: the review flag is not stored.
QuestionFieldsWithoutReviewFlag ==
    << "query", "grader_score", "llm_score", "score_difference", "feedback" >>

\* The fields GradingResult declares for each question, in declaration
\* order.
QuestionFields ==
    << "query", "grader_score", "llm_score", "score_difference", "feedback",
       "needs_review" >>

IdentityFields == << "student_id", "student_name" >>

TotalFields == << "total_llm_score", "total_grader_score", "total_score_difference" >>

\* The fields of the GradingResult dataclass in declaration order, which is
\* the key order of asdict(result): identity, the questions' fields question
\* by question, totals.
GradingResultFields ==
    LET per == Len(QuestionFields)
        ids == Len(IdentityFields)
        n == ids + NumQuestions * per + Len(TotalFields)
    IN [k \in 1..n |->
          IF k <= ids THEN Column(0, IdentityFields[k])
          ELSE IF k <= ids + NumQuestions * per
               THEN Column(((k - ids - 1) \div per) + 1,
                           QuestionFields[((k - ids - 1) % per) + 1])
          ELSE Column(0, TotalFields[k - ids - NumQuestions * per])]

\* The header pd.DataFrame(results_dicts).to_csv writes: the keys of the
\* records' dicts, and no column at all for an empty list.
csv_header(rs) == IF rs = << >> THEN << >> ELSE GradingResultFields

\* ------------------------------------------------------ provider outcomes

\* What one generation attempt meets at the provider:
\*   transport_error  the request raises (connection reset, SDK error)
\*   timeout          the request times out
\*   status           a non-success status (detail: the status)
\*   body_not_json    a 200 whose body is not JSON (response.json() raises
\*                    requests' JSONDecodeError, a json.JSONDecodeError)
\*   body_not_object  a 200 whose body is JSON but no object
\*   empty            the generated text is empty or absent
\*   parse_error      the generated text does not parse (_parse_response
\*                    raises json.JSONDecodeError)
\*   ok               the generated text parses to payload
Outcome(kind, detail, payload) == [kind |-> kind, detail |-> detail, payload |-> payload]

NoOutcome == Outcome("none", "", None)

FailedOutcomes ==
    { Outcome(k, "", None) :
        k \in {"transport_error", "timeout", "body_not_json", "body_not_object",
               "empty", "parse_error"} }
    \cup { Outcome("status", d, None) : d \in {"500", "503"} }

\* The per-question entries the bounded payloads put on a special question.
SpecialEntries ==
    { MissingEntry, NonObjEntry,
      GoodEntry(-100), GoodEntry(25), GoodEntry(1100),
      ObjEntry(ScoreMissing, FALSE, FALSE, FALSE),
      ObjEntry(ScoreNaN, TRUE, TRUE, FALSE),
      ObjEntry(ScoreNum(800), TRUE, TRUE, TRUE) }

\* The values the model output parses to: objects with every question graded,
\* with one question special, with no question key at all (empty, or holding
\* other keys only), and JSON values that are no object.
Payloads ==
    { JObject(Uniform(GoodEntry(1000)), FALSE),
      JObject(Uniform(GoodEntry(0)), FALSE),
      JObject(Uniform(MissingEntry), FALSE),
      JObject(Uniform(MissingEntry), TRUE) }
    \cup { JObject(OneOff(GoodEntry(750), q, e), FALSE) :
             q \in BatchSpecialQuestions, e \in SpecialEntries }
    \cup { JValue(t, nz) : t \in {"list", "num"}, nz \in BOOLEAN }
    \cup { None }

OkOutcomes == { Outcome("ok", "", p) : p \in Payloads }

AttemptOutcomes == FailedOutcomes \cup OkOutcomes

\* What the reachability probe (GET /api/tags, timeout 5 s) meets.
ProbeOutcomes == {"ok", "non200", "connection_error", "timeout"}

\* ----------------------------------------------------------- error values

\* An error message: its fixed text, the attempt number it names (0 when the
\* text names none) and the detail it quotes.
ErrorMessage(msg, n, detail) == [msg |-> msg, attempt |-> n, detail |-> detail]

\* error is None.
NoError == ErrorMessage("None", 0, "")

ServerNotRunning ==
    ErrorMessage("Ollama server not running. Start it with: ollama serve", 0,
                 "Then pull the model with: ollama pull")

MaxRetriesExceeded == ErrorMessage("Max retries exceeded", 0, "")

\* ---------------------------------------------------------------- backends

\* Mutant of check_server: the status of the answer is not looked at.
check_server_any_status(probe) == probe # "connection_error"

\* OllamaGrader._check_server: True on status 200, False on a connection
\* error or any other status.  (A probe that times out is not caught there:
\* see ProbeRaises.)
check_server(probe) == probe = "ok"

\* requests.exceptions.Timeout is no ConnectionError (a read timeout), so
\* _check_server lets it through, and grade_student_submission calls
\* _check_server outside its try block.
ProbeRaises(probe) == probe = "timeout"

\* Mutant of SleepsBeforeRetry: the test is off by one, so the final attempt
\* sleeps too.
SleepsBeforeRetryOffByOne(a, n) == a < n

\* `if attempt < self.config.max_retries - 1:` of every failure branch:
\* sleep retry_delay and go on to the next attempt.
SleepsBeforeRetry(a, n) == a < n - 1

\* The attempts that execute `response_text = result_json.get("response", "")`
\* (ollama_grader.py line 145).
BindsResponseText(o) == o.kind \in {"empty", "parse_error", "ok"}

\* The JSONDecodeError handler of OllamaGrader prints response_text.  When
\* response.json() raised before any attempt of this call assigned it, that
\* read raises UnboundLocalError inside the handler, which no sibling except
\* clause catches.  (requests raises its own JSONDecodeError, a subclass of
\* json.JSONDecodeError, so this handler is the one that runs.)
OllamaRaises(o, bound) == o.kind = "body_not_json" /\ ~bound

\* error_msg of a failed OllamaGrader attempt (a is the 0-based attempt).
OllamaError(o, a) ==
    CASE o.kind = "status" -> ErrorMessage("Ollama API error", 0, o.detail)
      [] o.kind = "empty" -> ErrorMessage("Empty response from Ollama", 0, "")
      [] o.kind \in {"parse_error", "body_not_json"} ->
             ErrorMessage("JSON parsing error on attempt", a + 1, o.kind)
      [] o.kind = "timeout" -> ErrorMessage("Request timeout on attempt", a + 1, "")
      [] OTHER -> ErrorMessage("Grading error on attempt", a + 1, o.kind)

\* error_msg of a failed GeminiGrader attempt: an empty or unparsable text
\* raises json.JSONDecodeError in _parse_response, anything else the SDK
\* raises is caught as Exception.
GeminiError(o, a) ==
    IF o.kind \in {"parse_error", "empty"}
    THEN ErrorMessage("JSON parsing error on attempt", a + 1, o.kind)
    ELSE ErrorMessage("Grading error on attempt", a + 1, o.kind)

AttemptError(m, o, a) == IF m = "gemini" THEN GeminiError(o, a) ELSE OllamaError(o, a)

AttemptRaises(m, o, bound) == m = "ollama" /\ OllamaRaises(o, bound)

\* ---------------------------------------------------------- the input file

\* A cell of the input file as pandas.read_csv gives it: NaN for an empty
\* cell, a number (hundredths) or text that is no number.
NaNCell == [t |-> "nan", n |-> 0, s |-> ""]

NumCell(n) == [t |-> "num", n |-> n, s |-> ""]

TextCell(s) == [t |-> "text", n |-> 0, s |-> s]

\* A data row: identity cells as text, one response cell (the same in every
\* response column) and one score cell per question.
CsvRow(id, name, response, scores) ==
    [student_id |-> id, name |-> name, response |-> response, scores |-> scores]

ResponseColumn(q) == << "Response", q >>

ScoreColumn(q) == << "Score", q >>

\* The columns validate_columns looks for.
ExpectedColumns ==
    {<< "Student ID", 0 >>, << "Name", 0 >>}
    \cup {ResponseColumn(q) : q \in Questions} \cup {ScoreColumn(q) : q \in Questions}

\* The file at csv_path: whether pandas.read_csv can load it, its header and
\* its data rows.
CsvFile(loadable, columns, rows) ==
    [loadable |-> loadable, columns |-> columns, rows |-> rows]

\* The row a loaded submission came from, when every cell is filled.
RowOf(sub) ==
    CsvRow(sub.student_id, sub.student_name, TextCell(sub.queries[1]),
           [q \in Questions |-> NumCell(sub.grader_scores[q])])

\* A well-formed file that loads to the given submissions.
FileOf(subs) ==
    CsvFile(TRUE, ExpectedColumns, [k \in 1..Len(subs) |-> RowOf(subs[k])])

\* max_students: None, or a number.
NoLimit == [given |-> FALSE, n |-> 0]

Limit(n) == [given |-> TRUE, n |-> n]

\* Mutant of validate_columns: the score columns are not looked for.
validate_columns_without_scores(file) ==
    {c \in ExpectedColumns : c[1] # "Score" /\ c \notin file.columns}

\* SubmissionLoader.validate_columns: the expected columns the header lacks.
validate_columns(file) == {c \in ExpectedColumns : c \notin file.columns}

\* df.head(n).
head(rows, n) == SubSeq(rows, 1, IF n < Len(rows) THEN n ELSE Len(rows))

\* `self.df.head(max_count) if max_count else self.df`.
RowsToProcess(file, max_count) ==
    IF max_count.given /\ max_count.n # 0 THEN head(file.rows, max_count.n)
    ELSE file.rows

\* The texts that str.strip() leaves empty.
BlankTexts == {"", " ", "  "}

\* `pd.isna(query) or str(query).strip() == ""`.
NoAnswer(cell) == cell.t = "nan" \/ (cell.t = "text" /\ cell.s \in BlankTexts)

\* Mutant of QueryText: the answer cell goes through as it is.
QueryTextUnchanged(cell) == cell.s

\* str(query) after the replacement of an empty answer.
QueryText(cell) == IF NoAnswer(cell) THEN "[NO ANSWER PROVIDED]" ELSE cell.s

\* `float(score) if not pd.isna(score) else 0.0`, for a cell float() accepts.
GraderScore(cell) == IF cell.t = "num" THEN cell.n ELSE 0

\* The StudentSubmission get_submissions builds from a row.
SubmissionOfRow(row) ==
    Submission(row.student_id, row.name, QueryText(row.response),
               [q \in Questions |-> GraderScore(row.scores[q])])

\* The exception get_submissions raises, or "none": row[column] needs the
\* column (KeyError) and float(score) needs a number (ValueError).  A
\* missing column is met at the first row.
GetSubmissionsError(file, max_count) ==
    LET rows == RowsToProcess(file, max_count)
    IN IF rows = << >> THEN "none"
       ELSE IF ExpectedColumns \ file.columns # {} THEN "KeyError"
       ELSE IF \E k \in 1..Len(rows), q \in Questions : rows[k].scores[q].t = "text"
            THEN "ValueError"
       ELSE "none"

\* SubmissionLoader.get_submissions when it raises nothing.
get_submissions(file, max_count) ==
    LET rows == RowsToProcess(file, max_count)
    IN [k \in 1..Len(rows) |-> SubmissionOfRow(rows[k])]

\* ------------------------------------------------------------------- state

VARIABLES
    api_key_set,          \* whether GEMINI_API_KEY is set in the environment
    csv,                  \* the file at input_csv
    max_students,         \* grade_submissions' max_students
    raw_text,             \* the response text handed to _parse_response (tokens)
    built,                \* how raw_text was put together, and around which object
    parsed_ollama,        \* what OllamaGrader._parse_response made of raw_text
    parsed_gemini,        \* what GeminiGrader._parse_response made of raw_text
    stats_csv,            \* the rows of the result file given to StatisticsAnalyzer
    df,                   \* StatisticsAnalyzer.df
    valid_df,             \* StatisticsAnalyzer.valid_df
    model,                \* 'gemini', or an Ollama model ("ollama")
    max_retries,          \* config.max_retries of the grader
    submissions,          \* loader.get_submissions(max_students)
    pc,                   \* where the run is: "start", "load", "loop", "call",
                          \* "returned", "done", "raised"
    i,                    \* the loop's i (1-based) of the submission at hand
    results,              \* the in-memory results list
    success_count,
    fail_count,
    llm_result,           \* the loop's llm_result (None before the first call)
    error,                \* the loop's error
    rate_sleeps,          \* time.sleep(rate_limit_delay) calls of the run
    probes,               \* reachability probes sent in the run
    probe_result,         \* what the probe of the call in progress met, or "none"
    attempt,              \* the retry loop's attempt (0-based) of the call in progress
    response_text_bound,  \* whether the call's local response_text is assigned
    requests,             \* generation requests the call has sent
    retry_sleeps,         \* time.sleep(retry_delay) calls of the call
    last_outcome,         \* what the call's latest attempt met
    exc,                  \* the exception that left grade_submissions, or "none"
    retval,               \* what grade_submissions returned: "none", "True", "False"
    store,                \* the result file: whether this run wrote it, and its rows
    question_stats,       \* what get_per_question_stats returned or raised
    grader_stats,         \* what get_per_grader_stats returned
    cohort_index,         \* the index given to assign_grader
    cohort                \* what the two assign_grader methods returned for it

vars ==
    << api_key_set, csv, max_students, raw_text, built, parsed_ollama,
       parsed_gemini, stats_csv, df, valid_df, model, max_retries, submissions, pc, i, results, success_count, fail_count,
       llm_result, error, rate_sleeps, probes, probe_result, attempt,
       response_text_bound,
       requests, retry_sleeps, last_outcome, exc, retval, store,
       question_stats, grader_stats, cohort_index, cohort >>

\* The variables of the run outside the call in progress.
loopVars == << results, success_count, fail_count, rate_sleeps, i >>

\* The variables of the response parsers and of the statistics analyzer,
\* which the grading run leaves alone.
parserVars == << raw_text, built, parsed_ollama, parsed_gemini >>

statsVars == << stats_csv, df, valid_df >>

\* The results of the analyzer's statistics methods and of assign_grader.
analysisVars == << question_stats, grader_stats, cohort_index, cohort >>

inputVars == << api_key_set, csv, max_students, model, max_retries >>

configVars == << inputVars, submissions, parserVars, statsVars, analysisVars >>

\* Python's None for the results of a parser not yet called and for the
\* frames of an analyzer not yet loaded.
NotParsed == [status |-> "none", value |-> << >>]

NoFrame == [loaded |-> FALSE, rows |-> << >>]

NotBuilt == [shape |-> "none", fence |-> "none", object |-> << >>]

\* No response text is being parsed.
ParserIdle ==
    /\ raw_text = << >>
    /\ built = NotBuilt
    /\ parsed_ollama = NotParsed
    /\ parsed_gemini = NotParsed

\* The result file at GradingStatistics.csv_path: whether pandas.read_csv can
\* load it, and its rows.
ResultFile(loadable, rows) == [loadable |-> loadable, rows |-> rows]

\* A statistics method that has not been called.
NotCalled == [status |-> "none", stats |-> << >>]

StatsNotCalled ==
    /\ question_stats = NotCalled
    /\ grader_stats = NotCalled

\* Neither assign_grader method has been called.
NotAssigned == [statistics |-> "none", visualizer |-> "none"]

AssignIdle ==
    /\ cohort_index = 0
    /\ cohort = NotAssigned

\* No result file is being analyzed.
StatisticsIdle ==
    /\ stats_csv = ResultFile(FALSE, << >>)
    /\ df = NoFrame
    /\ valid_df = NoFrame
    /\ StatsNotCalled
    /\ AssignIdle

total == Len(submissions)

\* The variables of a run that has graded nothing yet, at the given place.
FreshRun(at, m, n, subs) ==
    /\ model = m
    /\ max_retries = n
    /\ submissions = subs
    /\ pc = at
    /\ i = 1
    /\ results = << >>
    /\ success_count = 0
    /\ fail_count = 0
    /\ llm_result = None
    /\ error = NoError
    /\ rate_sleeps = 0
    /\ probes = 0
    /\ probe_result = "none"
    /\ attempt = 0
    /\ response_text_bound = FALSE
    /\ requests = 0
    /\ retry_sleeps = 0
    /\ last_outcome = NoOutcome
    /\ exc = "none"
    /\ retval = "none"
    /\ store = [written |-> FALSE, rows |-> << >>]

\* The state at `results = []` (main.py line 124), for the given configuration
\* and loaded submissions.
InitWith(m, n, subs) ==
    /\ api_key_set = TRUE
    /\ csv = FileOf(subs)
    /\ max_students = NoLimit
    /\ ParserIdle
    /\ StatisticsIdle
    /\ FreshRun("loop", m, n, subs)

Models == {"gemini", "ollama"}

\* A batch under the default configuration.
Init ==
    \E m \in Models, subs \in SeqsUpTo(BatchSubmissions, MaxSubs) :
        InitWith(m, DefaultMaxRetries, subs)

\* ----------------------------------------------------------------- actions

\* The locals and per-call counters of grade_student_submission before its
\* retry loop starts, and after the caller has taken its return value.
NoCall ==
    /\ probe_result' = "none"
    /\ attempt' = 0
    /\ response_text_bound' = FALSE
    /\ requests' = 0
    /\ retry_sleeps' = 0
    /\ last_outcome' = NoOutcome

\* Mutant of LoopDone: the loop ends one submission early.
LoopDoneEarly(k, n) == k >= n

\* `for i, submission in enumerate(submissions, 1)` has no submission left.
LoopDone(k, n) == k > n

\* The loop takes the next submission and calls grade_student_submission, up
\* to the first attempt: OllamaGrader probes the server first, GeminiGrader
\* goes straight to the retry loop.
CallGrader ==
    /\ pc = "loop"
    /\ ~LoopDone(i, total)
    /\ attempt' = 0
    /\ response_text_bound' = FALSE
    /\ requests' = 0
    /\ retry_sleeps' = 0
    /\ last_outcome' = NoOutcome
    /\ UNCHANGED << configVars, loopVars, retval, store >>
    /\ \E probe \in ProbeOutcomes :
         \/ /\ model = "gemini"
            /\ UNCHANGED << probes, probe_result >>
            /\ IF max_retries > 0
               THEN /\ pc' = "call"
                    /\ UNCHANGED << llm_result, error >>
               ELSE /\ pc' = "returned"
                    /\ llm_result' = None
                    /\ error' = MaxRetriesExceeded
            /\ UNCHANGED exc
         \/ /\ model = "ollama"
            /\ ~ProbeRaises(probe)
            /\ check_server(probe)
            /\ probes' = probes + 1
            /\ probe_result' = probe
            /\ IF max_retries > 0
               THEN /\ pc' = "call"
                    /\ UNCHANGED << llm_result, error >>
               ELSE /\ pc' = "returned"
                    /\ llm_result' = None
                    /\ error' = MaxRetriesExceeded
            /\ UNCHANGED exc
         \/ /\ model = "ollama"
            /\ ~ProbeRaises(probe)
            /\ ~check_server(probe)
            /\ probes' = probes + 1
            /\ probe_result' = probe
            /\ pc' = "returned"
            /\ llm_result' = None
            /\ error' = ServerNotRunning
            /\ UNCHANGED exc
         \/ /\ model = "ollama"
            /\ ProbeRaises(probe)
            /\ probes' = probes + 1
            /\ probe_result' = probe
            /\ pc' = "raised"
            /\ exc' = "Timeout in _check_server"
            /\ UNCHANGED << llm_result, error >>

\* One iteration of the retry loop: the request, the parsing and the handler
\* of whatever went wrong.  A handler that sleeps goes on to the next
\* iteration; when range(max_retries) is used up the loop falls through to
\* `return None, "Max retries exceeded"`.
Attempt ==
    /\ pc = "call"
    /\ attempt < max_retries
    /\ UNCHANGED << configVars, loopVars, probes, probe_result, retval, store >>
    /\ \E o \in AttemptOutcomes :
         LET bound == response_text_bound \/ (model = "ollama" /\ BindsResponseText(o))
         IN /\ requests' = requests + 1
            /\ last_outcome' = o
            /\ response_text_bound' = bound
            /\ \/ /\ o.kind = "ok"
                  /\ pc' = "returned"
                  /\ llm_result' = o.payload
                  /\ error' = NoError
                  /\ UNCHANGED << attempt, retry_sleeps, exc >>
               \/ /\ o.kind # "ok"
                  /\ AttemptRaises(model, o, bound)
                  /\ pc' = "raised"
                  /\ exc' = "UnboundLocalError in grade_student_submission"
                  /\ UNCHANGED << attempt, retry_sleeps, llm_result, error >>
               \/ /\ o.kind # "ok"
                  /\ ~AttemptRaises(model, o, bound)
                  /\ SleepsBeforeRetry(attempt, max_retries)
                  /\ retry_sleeps' = retry_sleeps + 1
                  /\ attempt' = attempt + 1
                  /\ IF attempt + 1 < max_retries
                     THEN UNCHANGED << pc, llm_result, error >>
                     ELSE /\ pc' = "returned"
                          /\ llm_result' = None
                          /\ error' = MaxRetriesExceeded
                  /\ UNCHANGED exc
               \/ /\ o.kind # "ok"
                  /\ ~AttemptRaises(model, o, bound)
                  /\ ~SleepsBeforeRetry(attempt, max_retries)
                  /\ pc' = "returned"
                  /\ llm_result' = None
                  /\ error' = AttemptError(model, o, attempt)
                  /\ UNCHANGED << attempt, retry_sleeps, exc >>

\* Mutant of AppendResult: the record goes to the front of the list.
PrependResult(rs, r) == << r >> \o rs

\* results.append(result).
AppendResult(rs, r) == Append(rs, r)

\* Mutant of RateLimited: the delay follows the last submission too.
RateLimitedInclusive(k, n) == k <= n

\* `if i < total:` before time.sleep(rate_limit_delay).
RateLimited(k, n) == k < n

\* Mutant of Incremented: the counter is left as it is.
NotIncremented(count) == count

\* `success_count += 1`, `fail_count += 1`.
Incremented(count) == count + 1

\* `if llm_result:` the loop's test of a successful grading.
Graded(r) == Truthy(r)

\* The rest of the loop body once grade_student_submission has returned:
\* build the record, count it, append it, sleep the rate-limit delay.
ProcessResult ==
    /\ pc = "returned"
    /\ UNCHANGED << configVars, llm_result, error, probes, retval, store >>
    /\ NoCall
    /\ LET sub == submissions[i]
       IN \/ /\ Graded(llm_result)
             /\ AggregateError(llm_result) = "none"
             /\ results' = AppendResult(results, create_result_from_grading(sub, llm_result))
             /\ success_count' = Incremented(success_count)
             /\ rate_sleeps' = IF RateLimited(i, total) THEN rate_sleeps + 1 ELSE rate_sleeps
             /\ i' = i + 1
             /\ pc' = "loop"
             /\ UNCHANGED << fail_count, exc >>
          \/ /\ Graded(llm_result)
             /\ AggregateError(llm_result) # "none"
             /\ pc' = "raised"
             /\ exc' = AggregateError(llm_result) \o " in create_result_from_grading"
             /\ UNCHANGED loopVars
          \/ /\ ~Graded(llm_result)
             /\ results' = AppendResult(results, create_failed_result(sub))
             /\ fail_count' = Incremented(fail_count)
             /\ rate_sleeps' = IF RateLimited(i, total) THEN rate_sleeps + 1 ELSE rate_sleeps
             /\ i' = i + 1
             /\ pc' = "loop"
             /\ UNCHANGED << success_count, exc >>

\* ResultsProcessor.save_results_to_csv: one row per record, in list order.
save_results_to_csv(rs) == [written |-> TRUE, rows |-> rs]

\* After the loop: save the results and print the summary, whose
\* total_time/total divides by the number of submissions.
SaveResults ==
    /\ pc = "loop"
    /\ LoopDone(i, total)
    /\ UNCHANGED << configVars, loopVars, llm_result, error, probes, probe_result,
                    attempt, response_text_bound, requests, retry_sleeps,
                    last_outcome >>
    /\ \E io \in {"ok", "io_error"} :
         \/ /\ io = "ok"
            /\ total > 0
            /\ store' = save_results_to_csv(results)
            /\ pc' = "done"
            /\ retval' = "True"
            /\ UNCHANGED exc
         \/ /\ io = "ok"
            /\ total = 0
            /\ store' = save_results_to_csv(results)
            /\ pc' = "raised"
            /\ exc' = "ZeroDivisionError in grade_submissions"
            /\ UNCHANGED retval
         \/ /\ io = "io_error"
            /\ pc' = "done"
            /\ retval' = "False"
            /\ UNCHANGED << store, exc >>

Next == CallGrader \/ Attempt \/ ProcessResult \/ SaveResults

Spec == Init /\ [][Next]_vars

\* The run as a single thread whose every provider call returns or raises in
\* finite time: a step that can be taken is taken.
SpecFair == Spec /\ WF_vars(Next)

\* One call of grade_student_submission for each max_retries up to the bound.
InitRetry ==
    \E m \in Models, n \in 0..MaxRetries, sub \in BatchSubmissions :
        InitWith(m, n, << sub >>)

SpecRetry == InitRetry /\ [][Next]_vars

\* ------------------------------------------------------- the whole run

\* get_grader inside the try of grade_submissions: get_gemini_config raises
\* ValueError when GEMINI_API_KEY is unset or empty, which the run reports
\* by returning False; an Ollama grader is built without contacting the
\* server.
StartRun ==
    /\ pc = "start"
    /\ UNCHANGED << configVars, loopVars, llm_result, error, probes, probe_result,
                    attempt, response_text_bound, requests, retry_sleeps,
                    last_outcome, exc, store >>
    /\ IF model = "gemini" /\ ~api_key_set
       THEN /\ pc' = "done"
            /\ retval' = "False"
       ELSE /\ pc' = "load"
            /\ UNCHANGED retval

\* loader.load(), loader.validate_columns() and
\* loader.get_submissions(max_students), up to `results = []`.
LoadSubmissions ==
    /\ pc = "load"
    /\ UNCHANGED << inputVars, parserVars, statsVars, analysisVars, loopVars, llm_result, error,
                    probes, probe_result, attempt, response_text_bound, requests,
                    retry_sleeps, last_outcome, store >>
    /\ \/ /\ ~csv.loadable
          /\ pc' = "done"
          /\ retval' = "False"
          /\ UNCHANGED << submissions, exc >>
       \/ /\ csv.loadable
          /\ validate_columns(csv) # {}
          /\ pc' = "done"
          /\ retval' = "False"
          /\ UNCHANGED << submissions, exc >>
       \/ /\ csv.loadable
          /\ validate_columns(csv) = {}
          /\ GetSubmissionsError(csv, max_students) # "none"
          /\ pc' = "raised"
          /\ exc' = GetSubmissionsError(csv, max_students) \o " in get_submissions"
          /\ UNCHANGED << submissions, retval >>
       \/ /\ csv.loadable
          /\ validate_columns(csv) = {}
          /\ GetSubmissionsError(csv, max_students) = "none"
          /\ submissions' = get_submissions(csv, max_students)
          /\ pc' = "loop"
          /\ UNCHANGED << retval, exc >>

\* Data rows of the input file: a complete one, one with an empty answer and
\* empty score cells, one with a white-space answer and no score at all, and
\* one whose first score cell is text.
RawRows ==
    { CsvRow("s1", "Ann", TextCell("SELECT 1"), Uniform(NumCell(1000))),
      CsvRow("s2", "Bob", NaNCell, OneOff(NaNCell, 1, NumCell(75))),
      CsvRow("s4", "Dee", TextCell(" "), Uniform(NaNCell)),
      CsvRow("s3", "Cy", TextCell("  "), OneOff(NumCell(1000), 1, TextCell("abc"))) }

\* Headers: complete, or lacking one identity, response or score column.
Headers ==
    { ExpectedColumns \ missing :
        missing \in { {}, {<< "Student ID", 0 >>}, {ResponseColumn(NumQuestions)},
                      {ScoreColumn(1)} } }

\* Input files: one that cannot be loaded, and loadable ones.
CsvFiles ==
    { CsvFile(FALSE, {}, << >>) }
    \cup { CsvFile(TRUE, h, rows) : h \in Headers, rows \in SeqsUpTo(RawRows, MaxRows) }

MaxStudentsValues == {NoLimit} \cup {Limit(n) : n \in 0..MaxRows}

\* The state on entry to grade_submissions, for either backend, with or
\* without the credential, on any of the input files.
InitRun ==
    \E m \in Models, key \in BOOLEAN, file \in CsvFiles, limit \in MaxStudentsValues :
        /\ api_key_set = key
        /\ csv = file
        /\ max_students = limit
        /\ ParserIdle
        /\ StatisticsIdle
        /\ FreshRun("start", m, DefaultMaxRetries, << >>)

NextRun == StartRun \/ LoadSubmissions \/ Next

SpecRun == InitRun /\ [][NextRun]_vars

\* ------------------------------------------------- the response parsers

\* A response text is a sequence of tokens, each standing for a run of
\* characters: "sp" for white space, "w" for a word, "{" and "}" for the
\* braces, "fence" for a fence marker (three backticks), "json" for the
\* fence tag, "<think>" and "</think>" for the reasoning-trace tags, "q" for
\* a double quote, "," for a comma, "7" for a number and a key token for a
\* quoted key with its colon.
Keys == {"q41:", "score:", "feedback:"}

RECURSIVE LStrip(_)
LStrip(t) == IF t # << >> /\ t[1] = "sp" THEN LStrip(Tail(t)) ELSE t

RECURSIVE RStrip(_)
RStrip(t) ==
    IF t # << >> /\ t[Len(t)] = "sp" THEN RStrip(SubSeq(t, 1, Len(t) - 1)) ELSE t

\* str.strip().
Strip(t) == RStrip(LStrip(t))

Least(S) == CHOOSE k \in S : \A j \in S : k <= j

Greatest(S) == CHOOSE k \in S : \A j \in S : k >= j

\* str.find(tok, start) with 1-based positions, 0 for Python's -1.
Find(t, tok, start) ==
    LET hits == {k \in start..Len(t) : t[k] = tok}
    IN IF hits = {} THEN 0 ELSE Least(hits)

\* str.rfind(tok).
RFind(t, tok) ==
    LET hits == {k \in 1..Len(t) : t[k] = tok}
    IN IF hits = {} THEN 0 ELSE Greatest(hits)

\* str.find of the marker followed by the tag json.
FindJsonFence(t) ==
    LET hits == {k \in 1..(Len(t) - 1) : t[k] = "fence" /\ t[k + 1] = "json"}
    IN IF hits = {} THEN 0 ELSE Least(hits)

\* t[a:b] for 1-based a and exclusive b.
Slice(t, a, b) == SubSeq(t, a, b - 1)

RECURSIVE RemoveThinkBlocks(_)
\* re.sub(r'<think>.*?</think>', '', text, flags=re.DOTALL): each leftmost
\* "<think>" that a "</think>" follows goes, up to the nearest "</think>".
RemoveThinkBlocks(t) ==
    LET open == Find(t, "<think>", 1)
        close == IF open = 0 THEN 0 ELSE Find(t, "</think>", open + 1)
    IN IF close = 0 THEN t
       ELSE SubSeq(t, 1, open - 1) \o RemoveThinkBlocks(SubSeq(t, close + 1, Len(t)))

\* OllamaGrader._strip_thinking.
strip_thinking(t) == Strip(RemoveThinkBlocks(t))

\* What json.loads gives: the value, or JSONDecodeError.  A value is kept as
\* its own tokens without the white space between them.
ParseError == [ok |-> FALSE, next |-> 0, value |-> << >>]

Parsed(next, value) == [ok |-> TRUE, next |-> next, value |-> value]

\* The position of the first token at or after k that is not white space.
SkipWs(t, k) ==
    LET rest == {j \in k..Len(t) : t[j] # "sp"}
    IN IF rest = {} THEN Len(t) + 1 ELSE Least(rest)

\* A string from its opening quote at k to the next quote.
ParseString(t, k) ==
    LET close == Find(t, "q", k + 1)
    IN IF close = 0 THEN ParseError ELSE Parsed(close + 1, SubSeq(t, k, close))

RECURSIVE ParseValue(_, _)
RECURSIVE ParseMembers(_, _, _)
\* The JSON value that starts at k.
ParseValue(t, k) ==
    IF k > Len(t) THEN ParseError
    ELSE IF t[k] = "7" THEN Parsed(k + 1, << "7" >>)
    ELSE IF t[k] = "q" THEN ParseString(t, k)
    ELSE IF t[k] = "{"
         THEN LET j == SkipWs(t, k + 1)
              IN IF j <= Len(t) /\ t[j] = "}" THEN Parsed(j + 1, << "{", "}" >>)
                 ELSE ParseMembers(t, j, << "{" >>)
    ELSE ParseError

\* The members of an object from the key at k on; acc holds the object so
\* far.  (No text of the model repeats a key within one object.)
ParseMembers(t, k, acc) ==
    IF k > Len(t) \/ t[k] \notin Keys THEN ParseError
    ELSE LET v == ParseValue(t, SkipWs(t, k + 1))
             j == SkipWs(t, v.next)
         IN IF ~v.ok \/ j > Len(t) THEN ParseError
            ELSE IF t[j] = "}"
                 THEN Parsed(j + 1, acc \o << t[k] >> \o v.value \o << "}" >>)
            ELSE IF t[j] = ","
                 THEN ParseMembers(t, SkipWs(t, j + 1),
                                   acc \o << t[k] >> \o v.value \o << "," >>)
            ELSE ParseError

Returned(value) == [status |-> "ok", value |-> value]

Raised(e) == [status |-> e, value |-> << >>]

\* json.loads(text): one value with nothing but white space around it.
json_loads(t) ==
    LET v == ParseValue(t, SkipWs(t, 1))
    IN IF v.ok /\ SkipWs(t, v.next) > Len(t) THEN Returned(v.value)
       ELSE Raised("JSONDecodeError")

\* The fenced block OllamaGrader._parse_response cuts out: the text between
\* the marker found at `at` (n tokens long) and the next marker, or the whole
\* text when no marker follows.
FencedInterior(t, at, n) ==
    LET start == at + n
        end == Find(t, "fence", start)
    IN IF end # 0 THEN Slice(t, start, end) ELSE t

\* The span from the first "{" to the last "}", when there is one.
BraceSlice(t) ==
    LET first_brace == Find(t, "{", 1)
        last_brace == RFind(t, "}")
    IN IF first_brace # 0 /\ last_brace # 0 /\ last_brace > first_brace
       THEN SubSeq(t, first_brace, last_brace)
       ELSE t

\* OllamaGrader._parse_response.
OllamaParseResponse(response_text) ==
    LET stripped == strip_thinking(response_text)
        unfenced == IF FindJsonFence(stripped) # 0
                    THEN FencedInterior(stripped, FindJsonFence(stripped), 2)
                    ELSE IF Find(stripped, "fence", 1) # 0
                    THEN FencedInterior(stripped, Find(stripped, "fence", 1), 1)
                    ELSE stripped
    IN json_loads(BraceSlice(Strip(unfenced)))

StartsWith(t, prefix) == Len(t) >= Len(prefix) /\ SubSeq(t, 1, Len(prefix)) = prefix

\* GeminiGrader._parse_response.
GeminiParseResponse(response_text) ==
    LET cleaned == Strip(response_text)
        opened == IF StartsWith(cleaned, << "fence", "json" >>)
                  THEN SubSeq(cleaned, 3, Len(cleaned))
                  ELSE IF StartsWith(cleaned, << "fence" >>)
                  THEN SubSeq(cleaned, 2, Len(cleaned))
                  ELSE cleaned
        closed == IF opened # << >> /\ opened[Len(opened)] = "fence"
                  THEN SubSeq(opened, 1, Len(opened) - 1)
                  ELSE opened
    IN json_loads(Strip(closed))

RECURSIVE SerializeFrom(_, _, _)
\* json.dumps of a value: its tokens with a space after each comma and each
\* key colon outside the strings.
SerializeFrom(v, k, in_string) ==
    IF k > Len(v) THEN << >>
    ELSE LET tok == v[k]
             now_in == IF tok = "q" THEN ~in_string ELSE in_string
             out == IF ~in_string /\ (tok = "," \/ tok \in Keys)
                    THEN << tok, "sp" >> ELSE << tok >>
         IN out \o SerializeFrom(v, k + 1, now_in)

Serialize(v) == SerializeFrom(v, 1, FALSE)

\* Contents of the feedback string of a payload: words, braces, fence
\* markers, reasoning-trace tags.
StringContents ==
    { << >>, << "w" >>, << "w", "sp", "w" >>, << "{", "w", "}" >>, << "}", "{" >>,
      << "fence", "w", "fence" >>, << "fence", "json" >>, << "<think>", "w", "</think>" >> }

\* The payload {"question_4_1": {"score": 7, "feedback": s}}.
Payload(s) ==
    << "{", "q41:", "{", "score:", "7", ",", "feedback:", "q" >> \o s \o << "q", "}", "}" >>

Objects ==
    { << "{", "}" >>, << "{", "score:", "7", "}" >> } \cup { Payload(s) : s \in StringContents }

\* The payloads wrapped into longer responses.
WrappedObjects ==
    { Payload(<< "w" >>), Payload(<< "{", "w", "}" >>), Payload(<< "fence", "w", "fence" >>) }

\* Commentary around a payload: words and braces.
Commentary == SeqsUpTo({"w", "{", "}"}, MaxCommentary)

\* Reasoning traces.
Traces == { << "w" >>, << "{" >>, << "}", "w", "{" >> }

Fences == {"json", "plain", "bare"}

\* The object in a fenced block (tagged json, or untagged) or bare.
Fenced(fence, object) ==
    IF fence = "json" THEN << "fence", "json", "sp" >> \o Serialize(object) \o << "sp", "fence" >>
    ELSE IF fence = "plain" THEN << "fence", "sp" >> \o Serialize(object) \o << "sp", "fence" >>
    ELSE Serialize(object)

\* Leading commentary, a reasoning trace, the block and trailing commentary.
Wrapped(lead, trace, fence, object, trail) ==
    lead \o << "sp", "<think>" >> \o trace \o << "</think>", "sp" >>
    \o Fenced(fence, object) \o << "sp" >> \o trail

\* Commentary before and after the block.
Commented(lead, fence, object, trail) ==
    lead \o << "sp" >> \o Fenced(fence, object) \o << "sp" >> \o trail

Built(shape, fence, object) == [shape |-> shape, fence |-> fence, object |-> object]

\* No batch is run while a response text or a result file is looked at.
NoRun ==
    /\ api_key_set = TRUE
    /\ csv = FileOf(<< >>)
    /\ max_students = NoLimit
    /\ FreshRun("idle", "gemini", DefaultMaxRetries, << >>)

\* A response text of one of three makes: the plain serialization of a
\* payload; commentary, trace and fenced block; commentary around a fenced or
\* bare object.
InitParse ==
    /\ NoRun
    /\ StatisticsIdle
    /\ parsed_ollama = NotParsed
    /\ parsed_gemini = NotParsed
    /\ \/ \E object \in Objects :
             /\ raw_text = Serialize(object)
             /\ built = Built("serialized", "bare", object)
       \/ \E lead \in Commentary, trace \in Traces, fence \in Fences \ {"bare"},
             object \in WrappedObjects, trail \in Commentary :
             /\ raw_text = Wrapped(lead, trace, fence, object, trail)
             /\ built = Built("wrapped", fence, object)
       \/ \E lead \in Commentary, fence \in Fences, object \in WrappedObjects,
             trail \in Commentary :
             /\ lead # << >> \/ trail # << >>
             /\ raw_text = Commented(lead, fence, object, trail)
             /\ built = Built("commented", fence, object)

runVars ==
    << inputVars, submissions, pc, loopVars, llm_result, error, probes, probe_result,
       attempt, response_text_bound, requests, retry_sleeps, last_outcome, exc,
       retval, store >>

\* OllamaGrader._parse_response(raw_text).
ParseOllama ==
    /\ pc = "idle"
    /\ built # NotBuilt
    /\ parsed_ollama = NotParsed
    /\ parsed_ollama' = OllamaParseResponse(raw_text)
    /\ UNCHANGED << runVars, statsVars, analysisVars, raw_text, built, parsed_gemini >>

\* GeminiGrader._parse_response(raw_text).
ParseGemini ==
    /\ pc = "idle"
    /\ built # NotBuilt
    /\ parsed_gemini = NotParsed
    /\ parsed_gemini' = GeminiParseResponse(raw_text)
    /\ UNCHANGED << runVars, statsVars, analysisVars, raw_text, built, parsed_ollama >>

NextParse == ParseOllama \/ ParseGemini

SpecParse == InitParse /\ [][NextParse]_vars

\* ---------------------------------------------------------- statistics

\* A row of the result file as pandas reads it: per question the model's
\* score and the human score, each a number (hundredths), NaN for an empty
\* cell, or text.
\* The score_difference cell the grading run writes next to the two scores: a
\* failure record has -1.0, a success record the rounded difference.
ScoreDifference(l, g) ==
    IF l.t = "num" /\ g.t = "num"
    THEN NumCell(IF l.n = -100 THEN -100 ELSE Round1(l.n - g.n))
    ELSE NaNCell

StoredRow(llm, grader) ==
    [llm_score |-> llm, grader_score |-> grader,
     score_difference |-> [q \in Questions |-> ScoreDifference(llm[q], grader[q])]]

\* A frame keeps the rows with their index in the file (0-based).
Frame(rows) == [loaded |-> TRUE, rows |-> rows]

Indexed(rows) == [k \in 1..Len(rows) |-> [index |-> k - 1, row |-> rows[k]]]

\* Mutant of ScoreSucceeded: a zero score is taken for a failure.
ScoreSucceededStrict(cell) == cell.t = "num" /\ cell.n > 0

\* `self.df['q4_1_llm_score'] >= 0` on one cell; NaN compares False.
ScoreSucceeded(cell) == cell.t = "num" /\ cell.n >= 0

IsSucceeded(r) == ScoreSucceeded(r.row.llm_score[1])

\* df[df['q4_1_llm_score'] >= 0].
FilterSucceeded(rows) == SelectSeq(rows, IsSucceeded)

HasGraderScores(r) == \A q \in Questions : r.row.grader_score[q].t # "nan"

\* valid_df.dropna(subset=required_cols).
DropMissingGraderScores(rows) == SelectSeq(rows, HasGraderScores)

\* The exception of the comparison with 0, or "none": a column that holds
\* text is a column of strings, which `>= 0` cannot compare.
ComparisonError(rows) ==
    IF \E k \in 1..Len(rows) : rows[k].llm_score[1].t = "text"
    THEN "TypeError" ELSE "none"

\* GradingStatistics.load_and_validate; its return value is whether
\* valid_df is set afterwards.
LoadAndValidate ==
    /\ pc = "idle"
    /\ ~df.loaded
    /\ UNCHANGED << runVars, parserVars, stats_csv, analysisVars >>
    /\ \/ /\ ~stats_csv.loadable
          /\ UNCHANGED << df, valid_df >>
       \/ /\ stats_csv.loadable
          /\ ComparisonError(stats_csv.rows) # "none"
          /\ df' = Frame(Indexed(stats_csv.rows))
          /\ UNCHANGED valid_df
       \/ /\ stats_csv.loadable
          /\ ComparisonError(stats_csv.rows) = "none"
          /\ df' = Frame(Indexed(stats_csv.rows))
          /\ valid_df' =
                Frame(DropMissingGraderScores(FilterSucceeded(Indexed(stats_csv.rows))))

\* Model scores of a stored row: the failure sentinel throughout, a score of
\* 0, -0.25 or 7.25 throughout, or an empty or a text cell for question 4.1.
StoredLlmScores ==
    { Uniform(NumCell(n)) : n \in {-100, -25, 0, 725} }
    \cup { OneOff(NumCell(725), 1, NaNCell), OneOff(NumCell(725), 1, TextCell("n/a")) }

\* Human scores of a stored row: all there, or the first or the last empty.
StoredGraderScores ==
    { Uniform(NumCell(1000)), OneOff(NumCell(1000), 1, NaNCell),
      OneOff(NumCell(1000), NumQuestions, NaNCell) }

StoredRows == { StoredRow(l, g) : l \in StoredLlmScores, g \in StoredGraderScores }

InitStats ==
    /\ NoRun
    /\ ParserIdle
    /\ df = NoFrame
    /\ valid_df = NoFrame
    /\ StatsNotCalled
    /\ AssignIdle
    /\ \/ stats_csv = ResultFile(FALSE, << >>)
       \/ \E rows \in SeqsUpTo(StoredRows, MaxStoredRows) :
             stats_csv = ResultFile(TRUE, rows)

NextStats == LoadAndValidate

SpecStats == InitStats /\ [][NextStats]_vars

\* -------------------------------------------------------------------------
\* Grader cohorts: assign_grader of the statistics analyzer and its copy in
\* the visualizer.
\* -------------------------------------------------------------------------

\* The largest index given to assign_grader.
MaxIndex == 1000

\* With the first range closed at its upper end.
assign_grader_inclusive(index) ==
    IF 0 <= index /\ index <= 55 THEN "G1"
    ELSE IF 55 <= index /\ index < 110 THEN "G2"
    ELSE IF 110 <= index /\ index < 165 THEN "G3"
    ELSE IF 165 <= index /\ index < 220 THEN "G4"
    ELSE IF 220 <= index /\ index < 275 THEN "G5"
    ELSE "G6"

\* GradingStatistics.assign_grader
assign_grader(index) ==
    IF 0 <= index /\ index < 55 THEN "G1"
    ELSE IF 55 <= index /\ index < 110 THEN "G2"
    ELSE IF 110 <= index /\ index < 165 THEN "G3"
    ELSE IF 165 <= index /\ index < 220 THEN "G4"
    ELSE IF 220 <= index /\ index < 275 THEN "G5"
    ELSE "G6"

\* GradingVisualizer.assign_grader
visualizer_assign_grader(index) ==
    IF 0 <= index /\ index < 55 THEN "G1"
    ELSE IF 55 <= index /\ index < 110 THEN "G2"
    ELSE IF 110 <= index /\ index < 165 THEN "G3"
    ELSE IF 165 <= index /\ index < 220 THEN "G4"
    ELSE IF 220 <= index /\ index < 275 THEN "G5"
    ELSE "G6"

AssignGrader ==
    /\ cohort.statistics = "none"
    /\ cohort' = [cohort EXCEPT !.statistics = assign_grader(cohort_index)]
    /\ UNCHANGED << runVars, parserVars, statsVars, question_stats, grader_stats,
                    cohort_index >>

VisualizerAssignGrader ==
    /\ cohort.visualizer = "none"
    /\ cohort' = [cohort EXCEPT !.visualizer = visualizer_assign_grader(cohort_index)]
    /\ UNCHANGED << runVars, parserVars, statsVars, question_stats, grader_stats,
                    cohort_index >>

InitAssign ==
    /\ NoRun
    /\ ParserIdle
    /\ stats_csv = ResultFile(FALSE, << >>)
    /\ df = NoFrame
    /\ valid_df = NoFrame
    /\ StatsNotCalled
    /\ cohort_index \in 0..MaxIndex
    /\ cohort = NotAssigned

NextAssign == AssignGrader \/ VisualizerAssignGrader

SpecAssign == InitAssign /\ [][NextAssign]_vars

\* -------------------------------------------------------------------------
\* Per-question and per-grader statistics of the valid rows.  The averages
\* and deviations the two methods also return are left out.
\* -------------------------------------------------------------------------

\* The most rows of an analyzed result file: one more than the first cohort's.
MaxFileRows == 56

\* The rows of the frame whose score_difference for the question is a number.
\* A comparison with NaN is False, so the other rows are in no selection.
NumericDifferences(rows, q) ==
    { k \in 1..Len(rows) : rows[k].row.score_difference[q].t = "num" }

Abs(x) == IF x < 0 THEN -x ELSE x

\* len(differences[abs(differences) < 0.1])
exact_matches(rows, q) ==
    Cardinality({ k \in NumericDifferences(rows, q) :
                    Abs(rows[k].row.score_difference[q].n) < 10 })

\* len(differences[differences > 0.1])
llm_higher(rows, q) ==
    Cardinality({ k \in NumericDifferences(rows, q) :
                    rows[k].row.score_difference[q].n > 10 })

\* len(differences[differences < -0.1])
llm_lower(rows, q) ==
    Cardinality({ k \in NumericDifferences(rows, q) :
                    rows[k].row.score_difference[q].n < -10 })

\* (exact_matches / n) * 100, kept as the fraction it is computed from.
AgreementRate(matches, n) == [num |-> matches * 100, den |-> n]

\* get_per_question_stats
GetPerQuestionStats ==
    /\ pc = "idle"
    /\ question_stats.status = "none"
    /\ question_stats' =
          IF ~valid_df.loaded THEN [status |-> "ok", stats |-> << >>]
          ELSE IF Len(valid_df.rows) = 0
          THEN [status |-> "ZeroDivisionError", stats |-> << >>]
          ELSE [status |-> "ok",
                stats |->
                  [q \in Questions |->
                     [exact_matches |-> exact_matches(valid_df.rows, q),
                      agreement_rate |->
                        AgreementRate(exact_matches(valid_df.rows, q),
                                      Len(valid_df.rows)),
                      llm_higher |-> llm_higher(valid_df.rows, q),
                      llm_lower |-> llm_lower(valid_df.rows, q)]]]
    /\ UNCHANGED << runVars, parserVars, statsVars, grader_stats, cohort_index, cohort >>

Graders == { "G1", "G2", "G3", "G4", "G5", "G6" }

\* The cohort key of a valid row taken from its place among the valid rows.
CohortKeyByPosition(rows, k) == k - 1

\* self.valid_df.index: the row's index in the frame that was read.
CohortKey(rows, k) == rows[k].index

\* self.valid_df['grader'] = self.valid_df.index.map(self.assign_grader)
WithGrader(rows) ==
    [k \in 1..Len(rows) |->
        [index |-> rows[k].index, row |-> rows[k].row,
         grader |-> assign_grader(CohortKey(rows, k))]]

\* self.valid_df[self.valid_df['grader'] == grader]
GraderData(rows, grader) ==
    SelectSeq(rows, LAMBDA r : r.grader = grader)

\* get_per_grader_stats
GetPerGraderStats ==
    /\ pc = "idle"
    /\ grader_stats.status = "none"
    /\ \/ /\ ~valid_df.loaded
          /\ grader_stats' = [status |-> "ok", stats |-> << >>]
          /\ UNCHANGED valid_df
       \/ /\ valid_df.loaded
          /\ LET rows == WithGrader(valid_df.rows)
                 present == { g \in Graders : Len(GraderData(rows, g)) # 0 }
             IN /\ valid_df' = Frame(rows)
                /\ grader_stats' =
                      [status |-> "ok",
                       stats |->
                         [g \in present |->
                            [num_students |-> Len(GraderData(rows, g)),
                             questions |->
                               [q \in Questions |->
                                  [agreement_rate |->
                                     AgreementRate(
                                       exact_matches(GraderData(rows, g), q),
                                       Len(GraderData(rows, g)))]]]]]
    /\ UNCHANGED << runVars, parserVars, stats_csv, df, question_stats,
                    cohort_index, cohort >>

\* The rows of an analyzed file: model and human agree on every question,
\* except in at most one row, the first or the last.
MatchingRow == StoredRow(Uniform(NumCell(500)), Uniform(NumCell(500)))

\* The one other row: a failure record, a record without the last human
\* score, or a model score 0.1 or 0.2 above or below the human one.
OtherRows ==
    { StoredRow(Uniform(NumCell(n)), Uniform(NumCell(500))) :
        n \in {-100, 480, 490, 510, 520} }
    \cup { StoredRow(Uniform(NumCell(500)), OneOff(NumCell(500), NumQuestions, NaNCell)) }

\* A file of n rows whose p-th row (1-based; none when p = 0) is the other one.
AnalyzedRows(n, p, other) ==
    [k \in 1..n |-> IF k = p THEN other ELSE MatchingRow]

InitAnalysis ==
    /\ NoRun
    /\ ParserIdle
    /\ df = NoFrame
    /\ valid_df = NoFrame
    /\ StatsNotCalled
    /\ AssignIdle
    /\ \/ stats_csv = ResultFile(FALSE, << >>)
       \/ \E n \in 0..MaxFileRows : \E p \in {0, 1, n} : \E other \in OtherRows :
             stats_csv = ResultFile(TRUE, AnalyzedRows(n, p, other))

NextAnalysis == LoadAndValidate \/ GetPerQuestionStats \/ GetPerGraderStats

SpecAnalysis == InitAnalysis /\ [][NextAnalysis]_vars

\* ------------------------------------------- the aggregator on its own

\* Scores on the 0.25 grid, in hundredths: 0, 0.25, 7.25, 10 from the model
\* and 0, 0.5, 0.75, 10 from the human grader.
LlmScoreValues == {0, 25, 725, 1000}

GraderScoreValues == {0, 50, 75, 1000}

\* Per-question values with a base value and the first and the last question
\* varied.
Vectors(S) ==
    { [q \in Questions |-> IF q = 1 THEN x ELSE IF q = NumQuestions THEN y ELSE b] :
        b \in S, x \in S, y \in S }

AggregateSubmissions ==
    { Submission("s1", "Ann", "SELECT 1", h) : h \in Vectors(GraderScoreValues) }

AggregatePayloads ==
    { JObject([q \in Questions |-> GoodEntry(v[q])], FALSE) : v \in Vectors(LlmScoreValues) }

\* The state in which grade_student_submission has just returned (p, None)
\* from its first attempt for the only submission of the batch.
InitAggregate ==
    \E sub \in AggregateSubmissions, p \in AggregatePayloads :
        /\ api_key_set = TRUE
        /\ csv = FileOf(<< sub >>)
        /\ max_students = NoLimit
        /\ ParserIdle
        /\ StatisticsIdle
        /\ model = "gemini"
        /\ max_retries = DefaultMaxRetries
        /\ submissions = << sub >>
        /\ pc = "returned"
        /\ i = 1
        /\ results = << >>
        /\ success_count = 0
        /\ fail_count = 0
        /\ llm_result = p
        /\ error = NoError
        /\ rate_sleeps = 0
        /\ probes = 0
        /\ probe_result = "none"
        /\ attempt = 0
        /\ response_text_bound = FALSE
        /\ requests = 1
        /\ retry_sleeps = 0
        /\ last_outcome = Outcome("ok", "", p)
        /\ exc = "none"
        /\ retval = "none"
        /\ store = [written |-> FALSE, rows |-> << >>]

NextAggregate == ProcessResult \/ SaveResults

SpecAggregate == InitAggregate /\ [][NextAggregate]_vars

\* ------------------------------------------------------------------ claims

\* The exceptions that leave grade_student_submission.
GraderExceptions ==
    {"Timeout in _check_server", "UnboundLocalError in grade_student_submission"}

\* The exceptions that leave create_result_from_grading.
AggregatorExceptions ==
    {"AttributeError in create_result_from_grading",
     "TypeError in create_result_from_grading"}

\* The loop has appended the record of the latest call, whose return value
\* llm_result and error still hold.
Processed == pc \in {"loop", "done"} /\ Len(results) >= 1

LastRecord == results[Len(results)]

LastSubmission == submissions[Len(results)]

\* C1: for both backends grade_student_submission returns a (result, error)
\* pair for every provider behaviour and never lets an exception reach its
\* caller.
C1_GraderNeverRaises == ~(pc = "raised" /\ exc \in GraderExceptions)

\* C2: whatever grade_student_submission returned for a submission, the
\* loop body appends a record for it and goes on with the batch.
C2_EveryResultYieldsRecord ==
    [][pc = "returned" => (pc' = "loop" /\ Len(results') = Len(results) + 1)]_vars

\* The retry loop of the call at hand has run and the call is over.
RetryLoopEnded ==
    /\ requests >= 1
    /\ pc = "returned" \/ (pc = "raised" /\ exc \in GraderExceptions)

\* C3: with max_retries = N >= 1 the call returns the parsed result of the
\* first successful attempt, and returns a failure exactly when all N
\* attempts failed, with the error of attempt N as the reason.
C3_FirstSuccessOrLastError ==
    (max_retries >= 1 /\ RetryLoopEnded) =>
        /\ pc = "returned"
        /\ IF last_outcome.kind = "ok"
           THEN /\ llm_result = last_outcome.payload
                /\ error = NoError
                /\ requests <= max_retries
           ELSE /\ llm_result = None
                /\ requests = max_retries
                /\ error = AttemptError(model, last_outcome, max_retries - 1)

\* C4: a call sends at most max_retries generation requests and none after
\* a successful attempt; it sleeps retry_delay once after every attempt that
\* is followed by another one, and not after its final attempt, whatever the
\* kind of failure.
C4_RequestsAndSleeps ==
    /\ requests <= max_retries
    /\ last_outcome.kind = "ok" => pc = "returned"
    /\ pc = "call" => (requests = attempt /\ retry_sleeps = requests)
    /\ (pc = "returned" \/ (pc = "raised" /\ exc \in GraderExceptions)) =>
           retry_sleeps = IF requests = 0 THEN 0 ELSE requests - 1

\* A call whose every attempt failed, one retry delay between each pair.
C4_Witness ==
    /\ pc = "returned"
    /\ max_retries = MaxRetries
    /\ last_outcome.kind = "timeout"
    /\ requests = MaxRetries
    /\ retry_sleeps = MaxRetries - 1

Unreachable == {"non200", "connection_error"}

\* The calls of grade_student_submission the run has started.
CallsStarted ==
    IF pc \in {"call", "returned"}
       \/ (pc = "raised" /\ exc \in GraderExceptions \cup AggregatorExceptions)
    THEN i ELSE i - 1

\* C5: when the probe cannot connect or is not answered with 200, the Ollama
\* call returns a failure at once, with the remediation text, no generation
\* request and no retry delay; and every call probes again, whatever the
\* earlier probes met.
C5_UnreachableFailsAtOnce ==
    /\ probe_result \in Unreachable =>
          /\ pc = "returned"
          /\ llm_result = None
          /\ error = ServerNotRunning
          /\ requests = 0
          /\ retry_sleeps = 0
    /\ model = "ollama" => probes = CallsStarted

\* The second submission of a batch is probed and served after the first
\* one failed.
C5_Witness ==
    /\ model = "ollama"
    /\ pc = "returned"
    /\ probe_result = "connection_error"
    /\ i = 2
    /\ probes = 2
    /\ fail_count = 1

\* C6: the written store holds one record per submission of the batch, the
\* k-th one carrying the identity of the k-th submission.
C6_OneRowPerSubmissionInOrder ==
    store.written =>
        /\ Len(store.rows) = total
        /\ \A k \in 1..total :
              /\ store.rows[k].student_id = submissions[k].student_id
              /\ store.rows[k].student_name = submissions[k].student_name

\* A written batch of two different students, one graded and one failed.
C6_Witness ==
    /\ store.written
    /\ total = 2
    /\ submissions[1].student_id # submissions[2].student_id
    /\ success_count = 1
    /\ fail_count = 1

FailureText == "Grading failed - requires manual review"

FailureShaped(r) ==
    /\ \A q \in Questions :
          /\ r.q[q].llm_score = -100
          /\ r.q[q].score_difference = -100
          /\ r.q[q].needs_review
          /\ r.q[q].feedback = FailureText
    /\ r.total_llm_score = -100
    /\ r.total_score_difference = -100

\* C7: the record of a submission whose grading failed has -1 in every
\* model score and difference, per question and in total, the review flag
\* set and the fixed feedback on every question, whatever the human scores.
C7_FailedRecordIsAllSentinel ==
    (Processed /\ ~Graded(llm_result)) => FailureShaped(LastRecord)

\* A failed grading of a submission that has a human score other than 0.
C7_Witness ==
    /\ Processed
    /\ ~Graded(llm_result)
    /\ error # NoError
    /\ LastSubmission.grader_scores[1] = 1000

\* The sum of the per-question model scores a record stores.
StoredLlmSum(r) == SumTo([q \in Questions |-> r.q[q].llm_score], NumQuestions)

\* round(x, 1) of a difference x whose left operand is a stored, already
\* rounded total: on a decimal tie the float's own rounding error decides, so
\* either neighbour is taken for the rounded value.
RoundsTo(d, x) == IF x % 10 = 5 THEN d \in {x - 5, x + 5} ELSE d = Round1(x)

\* C8 as stated: in a success record total_llm_score is the rounded sum of
\* the per-question model scores, and total_score_difference is
\* round(total_llm_score - total_grader_score, 1) computed from the stored,
\* already rounded total_llm_score.
C8_TotalsFromStoredTotal ==
    (Processed /\ Graded(llm_result)) =>
        /\ LastRecord.total_llm_score = Round1(StoredLlmSum(LastRecord))
        /\ RoundsTo(LastRecord.total_score_difference,
                    LastRecord.total_llm_score - LastRecord.total_grader_score)

\* C8 (amended): in a success record total_llm_score is the rounded sum of
\* the per-question model scores, and total_score_difference is the rounded
\* difference of the unrounded sum of the model scores and total_grader_score.
C8_TotalsFromUnroundedSum ==
    (Processed /\ Graded(llm_result)) =>
        /\ LastRecord.total_llm_score = Round1(StoredLlmSum(LastRecord))
        /\ LastRecord.total_score_difference =
               Round1(StoredLlmSum(LastRecord) - LastRecord.total_grader_score)

\* A success record whose model scores sum to a value that rounding changes.
C8_Witness ==
    /\ Processed
    /\ Graded(llm_result)
    /\ StoredLlmSum(LastRecord) % 10 = 5
    /\ LastRecord.total_grader_score > 0
    /\ LastRecord.total_score_difference # -100

\* C9: a payload returned with error None yields a success-shaped record
\* whichever question keys it lacks, all of them included: a missing question
\* has model score 0 and difference round(0 - human score, 1), and a present
\* one keeps its score.
C9_MissingKeysStaySuccess ==
    (Processed /\ error = NoError /\ llm_result.t = "obj") =>
        \A q \in Questions :
            /\ LastRecord.q[q].llm_score = LlmScore(llm_result.ent[q])
            /\ llm_result.ent[q].t = "missing" =>
                  /\ LastRecord.q[q].llm_score = 0
                  /\ LastRecord.q[q].score_difference =
                         Round1(0 - LastSubmission.grader_scores[q])

\* C10: in the record of a graded submission every per-question model score
\* lies in [0, 10], so a model score of -1 marks exactly the records of
\* failed gradings.
C10_SentinelOnlyOnFailure ==
    Processed =>
        /\ Graded(llm_result) =>
              \A q \in Questions :
                  LastRecord.q[q].llm_score >= 0 /\ LastRecord.q[q].llm_score <= 1000
        /\ (\E q \in Questions : LastRecord.q[q].llm_score = -100) <=> ~Graded(llm_result)

\* C19: in a batch of n submissions the rate-limit delay is slept once after
\* each appended record but the last, whether the grading succeeded or
\* failed: while the loop runs the sleeps number the records appended, and
\* at the end max(n - 1, 0).
C19_RateLimitSleeps ==
    pc \in {"loop", "done"} =>
        rate_sleeps = IF Len(results) < total THEN Len(results)
                      ELSE IF total = 0 THEN 0 ELSE total - 1

\* A two-submission batch has ended after a failed first grading with one
\* sleep.
C19_Witness ==
    /\ pc = "done"
    /\ total = 2
    /\ Len(results) = 2
    /\ FailureShaped(results[1])
    /\ rate_sleeps = 1

\* C16: the result store changes only in the step after the last submission's
\* record has been appended, from its untouched state to the full result
\* list; every other step of the run leaves it as it was.
C16_StoreWrittenOnceAtEnd ==
    [][store' # store =>
         /\ ~store.written
         /\ pc = "loop"
         /\ Len(results) = total
         /\ store' = [written |-> TRUE, rows |-> results]]_vars

\* The store holds the two records of a finished two-submission batch.
C16_Witness ==
    /\ pc = "done"
    /\ total = 2
    /\ store.written
    /\ Len(store.rows) = 2

\* C12: a call of grade_student_submission returns a result without an error
\* only when the parsed response is a JSON object.
C12_SuccessOnlyForObject ==
    (pc = "returned" /\ error = NoError) => llm_result.t = "obj"

\* The run has ended before grading: False is returned, no call of
\* grade_student_submission was made, no record built, nothing stored.
AbortedBeforeGrading ==
    /\ pc = "done"
    /\ retval = "False"
    /\ submissions = << >>
    /\ CallsStarted = 0
    /\ probes = 0
    /\ requests = 0
    /\ results = << >>
    /\ ~store.written

\* C11: grade_submissions ends by returning True or False whatever the input
\* file and the backend do; no exception leaves it.
C11_AlwaysReturnsBoolean == pc # "raised"

\* C17: with the Gemini credential missing the run ends before grading; and
\* so it does when the local service is unreachable at the run's first
\* contact with it.
C17_AbortsBeforeGrading ==
    /\ (model = "gemini" /\ ~api_key_set /\ pc # "start") => AbortedBeforeGrading
    /\ (model = "ollama" /\ i = 1 /\ probes = 1 /\ probe_result \in Unreachable)
         => AbortedBeforeGrading

\* The input file cannot be loaded or lacks an expected column.
BadFile == ~csv.loadable \/ ExpectedColumns \ csv.columns # {}

\* C18: when the input file cannot be loaded or lacks an expected column, the
\* run ends at the loading stage with False: no submission is built, no call
\* of grade_student_submission is made and the store is not written.
C18_BadFileAbortsBeforeGrading ==
    (BadFile /\ pc \notin {"start", "load"}) => AbortedBeforeGrading

\* A loadable file with data rows that lacks a score column has been turned
\* down by validate_columns, the configuration being in order.
C18_Witness ==
    /\ csv.loadable
    /\ ScoreColumn(1) \notin csv.columns
    /\ Len(csv.rows) >= 1
    /\ model = "ollama" \/ api_key_set
    /\ AbortedBeforeGrading

\* C13: of a response made of leading commentary, a reasoning trace, a fenced
\* block holding one JSON object and trailing commentary,
\* OllamaGrader._parse_response returns exactly that object.
C13_OllamaRecoversFencedObject ==
    (built.shape = "wrapped" /\ parsed_ollama # NotParsed)
        => parsed_ollama = Returned(built.object)

\* C14: of a response in which one JSON object, fenced or bare, has commentary
\* before or after it, GeminiGrader._parse_response returns that object.
C14_GeminiRecoversCommentedObject ==
    (built.shape = "commented" /\ parsed_gemini # NotParsed)
        => parsed_gemini = Returned(built.object)

\* C15: of the plain serialization of a payload object both parsers return
\* the object.
C15_RoundTrip ==
    built.shape = "serialized" =>
        /\ parsed_ollama # NotParsed => parsed_ollama = Returned(built.object)
        /\ parsed_gemini # NotParsed => parsed_gemini = Returned(built.object)

\* The row of the file at (0-based) index k is in valid_df.
KeptAsValid(k) == \E j \in 1..Len(valid_df.rows) : valid_df.rows[j].index = k

\* C20: after load_and_validate a row of the file is in valid_df if and only
\* if its q4_1_llm_score is at least 0 and none of its five human scores is
\* missing; the rows kept are the file's, unchanged and in file order.
C20_ValidIffScoredAndComplete ==
    valid_df.loaded =>
        /\ \A k \in 1..Len(stats_csv.rows) :
              LET row == stats_csv.rows[k]
              IN KeptAsValid(k - 1) <=>
                    /\ row.llm_score[1].t = "num"
                    /\ row.llm_score[1].n >= 0
                    /\ \A q \in Questions : row.grader_score[q].t # "nan"
        /\ \A j \in 1..Len(valid_df.rows) :
              /\ valid_df.rows[j].index + 1 \in 1..Len(stats_csv.rows)
              /\ valid_df.rows[j].row = stats_csv.rows[valid_df.rows[j].index + 1]
              /\ \A j2 \in 1..Len(valid_df.rows) :
                    j < j2 => valid_df.rows[j].index < valid_df.rows[j2].index

\* A file of three rows was loaded: the first, a failed grading, is left out;
\* the second, with valid model scores and a missing human score, is left
\* out; the third, with a model score of 0 and all human scores, is kept.
C20_Witness ==
    /\ valid_df.loaded
    /\ Len(stats_csv.rows) = 3
    /\ stats_csv.rows[1].llm_score[1] = NumCell(-100)
    /\ stats_csv.rows[2].llm_score[1] = NumCell(725)
    /\ stats_csv.rows[2].grader_score[NumQuestions] = NaNCell
    /\ stats_csv.rows[3] = StoredRow(Uniform(NumCell(0)), Uniform(NumCell(1000)))
    /\ Len(valid_df.rows) = 1
    /\ valid_df.rows[1].index = 2

\* C27: every return of grade_student_submission has exactly one component
\* set: a result with error None, or result None with a non-empty error
\* message.
C27_ResultOrError ==
    pc = "returned" =>
        \/ llm_result # None /\ error = NoError
        \/ llm_result = None /\ error # NoError /\ error.msg # ""

\* C23: the submissions of the run are the first min(limit, n) rows of the
\* n-row file in file order when a limit is given, and all n rows otherwise.
C23_FirstRowsUpToLimit ==
    pc \in {"loop", "call", "returned"} =>
        LET n == Len(csv.rows)
            k == IF max_students.given /\ max_students.n < n THEN max_students.n ELSE n
        IN /\ Len(submissions) = k
           /\ \A j \in 1..k : submissions[j] = SubmissionOfRow(csv.rows[j])

\* The records k of the list that have the failure shape.
FailureRecords(rs) == {k \in 1..Len(rs) : FailureShaped(rs[k])}

\* C29: the two counters add up to the number of records, which is the
\* number of submissions the loop has gone past; success_count is the number
\* of success-shaped records and fail_count that of failure-shaped ones; and
\* no step changes or removes a record already in the list.
C29_CountersMatchRecords ==
    /\ [](/\ success_count + fail_count = Len(results)
          /\ pc \in {"loop", "done"} => Len(results) = i - 1
          /\ fail_count = Cardinality(FailureRecords(results))
          /\ success_count = Len(results) - Cardinality(FailureRecords(results)))
    /\ [][/\ Len(results') >= Len(results)
          /\ SubSeq(results', 1, Len(results)) = results]_vars

\* A batch of two has ended with one record of each shape.
C29_Witness ==
    /\ pc = "done"
    /\ Len(results) = 2
    /\ success_count = 1
    /\ fail_count = 1
    /\ FailureShaped(results[2])
    /\ ~FailureShaped(results[1])

\* C25: in every record the answer texts and human scores are the
\* submission's, and total_grader_score is the plain sum of its human scores,
\* for successful and failed gradings alike.
C25_HumanFieldsPassThrough ==
    \A k \in 1..Len(results) :
        /\ \A q \in Questions :
              /\ results[k].q[q].query = submissions[k].queries[q]
              /\ results[k].q[q].grader_score = submissions[k].grader_scores[q]
        /\ results[k].total_grader_score = SumTo(submissions[k].grader_scores, NumQuestions)

\* The same submission, whose human scores sum to 0.75, was graded twice:
\* once with success and once with failure, to the same human total.
C25_Witness ==
    /\ Len(results) = 2
    /\ submissions[1] = submissions[2]
    /\ ~FailureShaped(results[1])
    /\ FailureShaped(results[2])
    /\ results[1].total_grader_score = 75
    /\ results[2].total_grader_score = 75

\* The row of the input file that submission k was built from.
SourceRow(k) == RowsToProcess(csv, max_students)[k]

\* The backend gave every question the score 0.
AllScoredZero(r) ==
    r.t = "obj" /\ \A q \in Questions : r.ent[q].t = "obj" /\ r.ent[q].score = ScoreNum(0)

\* C24: no answer text of a loaded submission is blank: an absent or
\* white-space answer has become '[NO ANSWER PROVIDED]' and an absent human
\* score 0.0 before the submission is graded; and when the backend scores
\* every question of a submission 0, its record is success-shaped with a
\* total_llm_score of 0.0.
C24_NoBlankAnswerReachesBackend ==
    /\ \A k \in 1..Len(submissions), q \in Questions :
          /\ submissions[k].queries[q] \notin BlankTexts
          /\ NoAnswer(SourceRow(k).response)
                => submissions[k].queries[q] = "[NO ANSWER PROVIDED]"
          /\ SourceRow(k).scores[q].t = "nan" => submissions[k].grader_scores[q] = 0
    /\ (Processed /\ AllScoredZero(llm_result))
          => /\ ~FailureShaped(LastRecord)
             /\ LastRecord.total_llm_score = 0
             /\ \A q \in Questions : LastRecord.q[q].llm_score = 0

\* A row with a white-space answer and no human score was graded 0 on every
\* question.
C24_Witness ==
    /\ Processed
    /\ AllScoredZero(llm_result)
    /\ SourceRow(Len(results)).response = TextCell(" ")
    /\ SourceRow(Len(results)).scores[1] = NaNCell
    /\ LastSubmission.queries[1] = "[NO ANSWER PROVIDED]"
    /\ LastRecord.total_llm_score = 0
    /\ LastRecord.total_grader_score = 0

\* The columns of the header that belong to no question.
FixedColumns(header) == {k \in 1..Len(header) : header[k].q = 0}

\* The header has six columns per question, question by question, between
\* the identity columns and the totals.
SixColumnsPerQuestion(header) ==
    \A q \in Questions, f \in 1..6 :
        header[2 + 6 * (q - 1) + f] = Column(q, QuestionFields[f])

\* C26 as stated: the rows of a written result file have 36 columns, 6 fixed
\* ones and 6 per question.
C26_SchemaOf36Columns ==
    (store.written /\ store.rows # << >>) =>
        /\ Len(csv_header(store.rows)) = 36
        /\ Cardinality(FixedColumns(csv_header(store.rows))) = 6

\* C26, amended: the rows of a written result file have 35 columns, the 5
\* fixed ones (two identity columns first, three totals last) and 6 per
\* question in between, in one order for success and failure records.
C26_SchemaOf35Columns ==
    (store.written /\ store.rows # << >>) =>
        LET header == csv_header(store.rows)
        IN /\ Len(header) = 35
           /\ Cardinality(FixedColumns(header)) = 5
           /\ SixColumnsPerQuestion(header)
           /\ header[1] = Column(0, "student_id")
           /\ header[2] = Column(0, "student_name")
           /\ header[33] = Column(0, "total_llm_score")
           /\ header[34] = Column(0, "total_grader_score")
           /\ header[35] = Column(0, "total_score_difference")
           /\ \A k \in 1..Len(store.rows) :
                 /\ DOMAIN store.rows[k] \ {"q"}
                      = {header[j].field : j \in FixedColumns(header)}
                 /\ DOMAIN store.rows[k].q = Questions
                 /\ \A q \in Questions :
                       DOMAIN store.rows[k].q[q]
                         = {header[j].field : j \in {c \in 1..Len(header) : header[c].q = q}}

\* A file with a success record and a failure record has been written.
C26_Witness ==
    /\ store.written
    /\ Len(store.rows) = 2
    /\ ~FailureShaped(store.rows[1])
    /\ FailureShaped(store.rows[2])

\* C28: no call of grade_student_submission sends more than max_retries
\* generation requests, and every run of a finite batch leaves the loop,
\* attempts the store write and returns.
C28_RunReturns ==
    /\ [](requests <= max_retries)
    /\ <>(pc = "done" /\ retval # "none")
\* C21: for every index i >= 0 both assign_grader methods return cohort
\* min(i div 55, 5) + 1: 0..54 is G1, 55..109 G2, 110..164 G3, 165..219 G4,
\* 220..274 G5 and every index from 275 on G6.
C21_CohortOfIndex ==
    LET n == IF cohort_index \div 55 < 5 THEN cohort_index \div 55 + 1 ELSE 6
        label == << "G1", "G2", "G3", "G4", "G5", "G6" >>[n]
    IN /\ cohort.statistics # "none" => cohort.statistics = label
       /\ cohort.visualizer # "none" => cohort.visualizer = label

\* Index 55 is the first of G2 for both methods.
C21_Witness ==
    /\ cohort_index = 55
    /\ cohort.statistics = "G2"
    /\ cohort.visualizer = "G2"

\* C30: get_per_question_stats puts every valid row in exactly one of the
\* classes exact match, llm higher and llm lower: for each question the three
\* counts add up to the number of valid rows.
C30_EveryRowInOneClass ==
    question_stats.status = "ok" /\ question_stats.stats # << >> =>
        \A q \in Questions :
            question_stats.stats[q].exact_matches + question_stats.stats[q].llm_higher
              + question_stats.stats[q].llm_lower = Len(valid_df.rows)

\* The valid rows with their 0-based position in the result file.
StorePositions ==
    { k \in 1..Len(stats_csv.rows) : \E j \in 1..Len(valid_df.rows) :
          valid_df.rows[j].index = k - 1 /\ valid_df.rows[j].row = stats_csv.rows[k] }

\* C22: get_per_grader_stats puts each valid row in the cohort of its 0-based
\* position in the whole result file, removed rows counted, and not in the
\* cohort of its place among the valid rows.
C22_CohortByStorePosition ==
    /\ grader_stats.status = "ok"
    /\ valid_df.loaded
    /\ \A j \in 1..Len(valid_df.rows) : "grader" \in DOMAIN valid_df.rows[j]
    =>
        /\ Cardinality(StorePositions) = Len(valid_df.rows)
        /\ \A j \in 1..Len(valid_df.rows) :
              /\ stats_csv.rows[valid_df.rows[j].index + 1] = valid_df.rows[j].row
              /\ valid_df.rows[j].grader = assign_grader(valid_df.rows[j].index)
        /\ \A g \in Graders :
              LET members == { k \in StorePositions : assign_grader(k - 1) = g }
              IN IF members = {} THEN g \notin DOMAIN grader_stats.stats
                 ELSE /\ g \in DOMAIN grader_stats.stats
                      /\ grader_stats.stats[g].num_students = Cardinality(members)

\* A file of 56 rows whose first row was removed: the 55 valid rows are 54 of
\* the first cohort and the last row, alone in the second.
C22_Witness ==
    /\ grader_stats.status = "ok"
    /\ Len(stats_csv.rows) = 56
    /\ Len(valid_df.rows) = 55
    /\ valid_df.rows[1].index = 1
    /\ DOMAIN grader_stats.stats = { "G1", "G2" }
    /\ grader_stats.stats["G1"].num_students = 54
    /\ grader_stats.stats["G2"].num_students = 1

====
